---------------------------- MODULE Spec2Model ----------------------------
(***************************************************************************)
(* Rust-Lab: a corpus of independent demonstration functions (a "buggy"    *)
(* and a "fixed" file per topic, and unit tests that mirror the fixed      *)
(* file).  Each demonstration function is a small program of its own: a    *)
(* spawner (the function body, "main" below) and the threads it spawns.    *)
(* The variable demo names the function being run; every specification     *)
(* below runs one family of functions.                                     *)
(*                                                                         *)
(* Library semantics used (std::sync, std::thread):                        *)
(*   Mutex::lock blocks while the mutex is held; it returns Err (with the  *)
(*     guard inside the error) when the mutex is poisoned; a guard dropped *)
(*     by a panicking thread poisons the mutex and releases it.            *)
(*   RwLock::read blocks while a writer holds the lock; RwLock::write      *)
(*     blocks while a writer or any reader holds it.                       *)
(*   mpsc: send appends to an unbounded queue; recv takes the head,        *)
(*     blocks on an empty queue while a Sender is alive and returns Err    *)
(*     on an empty queue with no Sender alive.                             *)
(*   JoinHandle::join blocks until the thread has terminated; Err when it  *)
(*     panicked.                                                           *)
(***************************************************************************)
EXTENDS Integers, Sequences, FiniteSets

VARIABLES
    demo,      \* the demonstration function being run
    n,         \* the number of threads the function spawns
    mpc,       \* the spawner's position in the function body
    mi,        \* the spawner's loop index (next thread to spawn or join)
    mres,      \* outcome of the spawner's own lock(): "none", "ok", "err"
    final,     \* what the spawner's final read saw: <<>> before, <<v>> after
    joined,    \* joined[t]: outcome of handle.join() on thread t
    tpc,       \* tpc[t]: position of spawned thread t in its closure
    lockres,   \* lockres[t]: outcome of thread t's lock(): "none", "ok", "err"
    local,     \* local[t]: the value thread t loaded for its read-modify-write
    owner,     \* owner[r]: the set (empty or one thread) holding mutex r
    poison,    \* poison[r]: the poisoned flag of mutex r
    value,     \* the integer guarded by mutex 1 (Counter.value, *shared_data)
    readers,   \* the threads holding a read guard of the RwLock
    writer,    \* the set (empty or one thread) holding the write guard
    vec,       \* the vector guarded by the RwLock
    seen,      \* seen[t]: what thread t observed through its guard
    queue,     \* the messages in flight in the channel
    senders,   \* the Sender handles alive ("tx" is kept by the spawner)
    messages,  \* the messages the receive loop has collected
    config,    \* the Config record
    arg,       \* the argument of the last Config call
    ret,       \* the result of the last Config call: "none", "Ok", "Err"
    call,      \* the free function being called, "none" before the call
    input,     \* the arguments of that call, a record
    locals,    \* the local variables of that call, a record
    result,    \* what the call returned
    user,      \* the User record (performance_optimization_fixed.rs)
    heap,      \* heap[a]: the reference-counted allocation at address a
    owned,     \* owned[a]: the Rc handles to a held in the caller's variables
    weakheld,  \* weakheld[a]: the Weak handles to a held in the caller's variables
    strong_ref \* the Rc bound by "if let Some(strong_ref) = weak.upgrade()"

ctlVars  == <<demo, n>>
mainVars == <<mpc, mi, mres, final, joined>>
thrVars  == <<tpc, lockres, local>>
mtxVars  == <<owner, poison, value>>
rwVars   == <<readers, writer, vec, seen>>
chVars   == <<queue, senders, messages>>
cfgVars  == <<config, arg, ret>>
fnVars   == <<call, input, locals, result>>
userVars == <<user>>
rcVars   == <<heap, owned, weakheld, strong_ref>>
concVars == <<ctlVars, mainVars, thrVars, mtxVars, rwVars, chVars>>

\* The state outside the concurrency demonstrations.
nonConcVars == <<cfgVars, fnVars, userVars, rcVars>>
\* The state outside the error-handling demonstrations.
nonCfgVars == <<concVars, fnVars, userVars, rcVars>>

vars == <<concVars, cfgVars, fnVars, userVars, rcVars>>

(***************************************************************************)
(* Threads.  The threads a function spawns are 0 .. n-1, in spawn order    *)
(* (the loop variable i of the spawning loop); the spawner is MAIN.        *)
(***************************************************************************)
Threads == 0 .. (n - 1)
MAIN == n

Resources == {1, 2}

\* Mutex::new / Arc::new(Mutex::new(..)): not held, not poisoned.
MutexNew == /\ owner = [r \in Resources |-> {}]
            /\ poison = [r \in Resources |-> FALSE]

IdleRw == /\ readers = {}
          /\ writer = {}
          /\ vec = <<>>
          /\ seen = <<>>

IdleChan == /\ queue = <<>>
            /\ senders = {}
            /\ messages = <<>>

IdleCfg == /\ config = [port |-> 0, host |-> "", timeout |-> 0, debug_level |-> ""]
           /\ arg = ""
           /\ ret = "none"

\* No free function has been called.
NoResult == [kind |-> "none", value |-> <<>>, msg |-> <<>>]
IdleFn == /\ call = "none"
          /\ input = <<>>
          /\ locals = <<>>
          /\ result = NoResult

\* No User has been created.
IdleUser == user = <<>>

\* Nothing has been allocated.
IdleRc == /\ heap = <<>>
          /\ owned = <<>>
          /\ weakheld = <<>>
          /\ strong_ref = <<>>

\* Nothing outside the concurrency demonstrations is running.
IdleSeq == IdleCfg /\ IdleFn /\ IdleUser /\ IdleRc

\* The state of a function that is about to spawn k threads.
Spawner(d, k) ==
    /\ demo = d
    /\ n = k
    /\ mpc = "spawn"
    /\ mi = 0
    /\ mres = "none"
    /\ final = <<>>
    /\ joined = [t \in 0 .. (k - 1) |-> "none"]
    /\ tpc = [t \in 0 .. (k - 1) |-> "idle"]
    /\ lockres = [t \in 0 .. (k - 1) |-> "none"]
    /\ local = [t \in 0 .. (k - 1) |-> 0]

(***************************************************************************)
(* The demonstration functions, by family.                                 *)
(***************************************************************************)
\* demonstrate_threads_correct (Counter, +1 per thread),
\* demonstrate_synchronization_correct (i32, += i) and
\* demonstrate_arc_mutex_bugs (Counter, +1 per thread, never joined).
CounterDemos == {"threads_correct", "synchronization_correct", "arc_mutex_bugs"}
\* demonstrate_deadlock_prevention, test_deadlock_prevention (fixed order)
\* and demonstrate_deadlock_bugs (opposite orders, never joined).
LockDemos == {"deadlock_prevention", "test_deadlock_prevention", "deadlock_bugs"}
\* demonstrate_channels_correct and test_channels_multiple_senders, and
\* demonstrate_channels_correct with its drop(tx) statement taken out.
ChannelDemos == {"channels_correct", "test_channels_multiple_senders",
                 "channels_without_drop"}
\* demonstrate_rwlock_correct and test_rwlock_multiple_threads.
RwDemos == {"rwlock_correct", "test_rwlock_multiple_threads"}
\* demonstrate_error_handling_concurrency (a mutex-guarded vector).
VecDemos == {"error_handling_concurrency"}

\* The functions of the buggy file (concurrency_basics.rs).
BuggyDemos == {"deadlock_bugs", "arc_mutex_bugs"}

\* How a function treats the Result of lock(): the fixed file matches on it
\* (log and skip), the buggy file and the tests unwrap it.
HandlingUnwrap(d) == "unwrap"
Handling(d) ==
    IF d \in BuggyDemos \cup {"test_deadlock_prevention"} THEN "unwrap" ELSE "match"

\* Whether the function treats the Result of join() with unwrap().
JoinUnwrap(d) == d \notin {"threads_correct"} \cup VecDemos

\* Whether the function joins the threads it spawned.
JoinsAlways(d) == TRUE
Joins(d) == d \notin BuggyDemos

\* Where the closure of thread t starts.
FirstLabel(d, t) ==
    CASE d \in CounterDemos -> "lock"
      [] d \in LockDemos -> "lock_a"
      [] d \in ChannelDemos -> "send"
      [] d \in VecDemos -> "vec_lock"
      [] OTHER -> IF (d = "rwlock_correct") = (t < 3) THEN "write" ELSE "read"

\* Where the spawner goes after its last join.
AfterJoin(d) ==
    CASE d \in CounterDemos -> "final_lock"
      [] d \in VecDemos -> "vec_final_lock"
      [] d = "test_rwlock_multiple_threads" -> "final_read"
      [] OTHER -> "done"

\* Where the spawner goes after its last spawn.
AfterSpawnDropping(d) ==
    CASE d \in ChannelDemos -> "drop_tx"
      [] ~Joins(d) -> "done"
      [] OTHER -> "join"
AfterSpawn(d) ==
    CASE d = "channels_without_drop" -> "recv"
      [] d \in ChannelDemos -> "drop_tx"
      [] ~Joins(d) -> "done"
      [] OTHER -> "join"

\* Whether mutex r can be acquired now (Mutex::lock blocks otherwise).
CanLockFree(r) == TRUE
CanLock(r) == owner[r] = {}

\* Whether thread t has terminated (its closure returned or unwound).
Terminated(t) == tpc[t] \in {"done", "panicked"}

\* Whether handle.join() on thread t can return now.
CanJoinNow(t) == TRUE
CanJoin(t) == Terminated(t)

\* thread::spawn (in the spawning loop, or for handle1 and handle2 in turn);
\* the channel test clones the sender for the thread first.
MainSpawn ==
    /\ mpc = "spawn"
    /\ tpc' = [tpc EXCEPT ![mi] = FirstLabel(demo, mi)]
    /\ senders' = IF demo = "test_channels_multiple_senders"
                     THEN senders \cup {mi} ELSE senders
    /\ IF mi + 1 < n
          THEN mi' = mi + 1 /\ mpc' = mpc
          ELSE mi' = 0 /\ mpc' = AfterSpawn(demo)
    /\ UNCHANGED <<ctlVars, mres, final, joined, lockres, local, mtxVars,
                   rwVars, queue, messages, nonConcVars>>

\* handle.join() on the threads in spawn order: threads_correct matches on
\* the result, the other functions unwrap it (a panicked thread makes the
\* spawner panic).
MainJoin ==
    /\ mpc = "join"
    /\ CanJoin(mi)
    /\ joined' = [joined EXCEPT ![mi] = IF tpc[mi] = "panicked" THEN "err" ELSE "ok"]
    /\ IF tpc[mi] = "panicked" /\ JoinUnwrap(demo)
          THEN mpc' = "panicked" /\ mi' = mi
          ELSE IF mi + 1 < n
                  THEN mi' = mi + 1 /\ mpc' = mpc
                  ELSE mi' = 0 /\ mpc' = AfterJoin(demo)
    /\ UNCHANGED <<ctlVars, mres, final, thrVars, mtxVars,
                   rwVars, chVars, nonConcVars>>

(***************************************************************************)
(* Mutex-guarded counter.                                                  *)
(***************************************************************************)
\* The loop bounds of the two functions.
NumThreads == 5
NumSyncThreads == 10
\* The thread counts the counter demonstration is run with: the function's
\* own loop bound, and 1 and 10 beside it.
ThreadCounts == {1, NumThreads, NumSyncThreads}

\* Counter::increment: self.value += 1; the synchronization demo adds i.
Amount(t) == IF demo = "synchronization_correct" THEN t ELSE 1

InitCounter ==
    /\ \/ \E k \in ThreadCounts : Spawner("threads_correct", k)
       \/ Spawner("synchronization_correct", NumSyncThreads)
    /\ MutexNew /\ value = 0
    /\ IdleRw /\ IdleChan /\ IdleSeq

\* counter_clone.lock(): Ok(guard) unless poisoned; the Err holds the guard
\* too, and unwrap() on it panics (which drops the guard and the error).
WorkerLock(t) ==
    /\ demo \in CounterDemos
    /\ tpc[t] = "lock"
    /\ CanLock(1)
    /\ IF ~poison[1]
          THEN /\ owner' = [owner EXCEPT ![1] = {t}]
               /\ lockres' = [lockres EXCEPT ![t] = "ok"]
               /\ tpc' = [tpc EXCEPT ![t] = "load"]
          ELSE /\ lockres' = [lockres EXCEPT ![t] = "err"]
               /\ IF Handling(demo) = "match"
                     THEN /\ owner' = [owner EXCEPT ![1] = {t}]
                          /\ tpc' = [tpc EXCEPT ![t] = "print"]
                     ELSE /\ owner' = owner
                          /\ tpc' = [tpc EXCEPT ![t] = "panicked"]
    /\ UNCHANGED <<ctlVars, mainVars, local, poison, value,
                   rwVars, chVars, nonConcVars>>

\* counter_guard.increment() / *data += i: the read of the guarded integer.
IncrementLoad(t) ==
    /\ demo \in CounterDemos
    /\ tpc[t] = "load"
    /\ local' = [local EXCEPT ![t] = value]
    /\ tpc' = [tpc EXCEPT ![t] = "store"]
    /\ UNCHANGED <<ctlVars, mainVars, lockres, mtxVars,
                   rwVars, chVars, nonConcVars>>

\* ... and the write of the sum (the loaded value is dead afterwards).
IncrementStore(t) ==
    /\ demo \in CounterDemos
    /\ tpc[t] = "store"
    /\ value' = local[t] + Amount(t)
    /\ local' = [local EXCEPT ![t] = 0]
    /\ tpc' = [tpc EXCEPT ![t] = "print"]
    /\ UNCHANGED <<ctlVars, mainVars, lockres, owner, poison,
                   rwVars, chVars, nonConcVars>>

\* println! of either match arm, then the end of the arm drops the guard
\* (counter_guard, or the guard inside e) and the closure returns.
WorkerPrint(t) ==
    /\ demo \in CounterDemos
    /\ tpc[t] = "print"
    /\ owner' = [owner EXCEPT ![1] = {}]
    /\ tpc' = [tpc EXCEPT ![t] = "done"]
    /\ UNCHANGED <<ctlVars, mainVars, lockres, local, poison, value,
                   rwVars, chVars, nonConcVars>>

\* match counter.lock() / match shared_data.lock() in the spawner.
MainLock ==
    /\ demo \in CounterDemos
    /\ mpc = "final_lock"
    /\ CanLock(1)
    /\ owner' = [owner EXCEPT ![1] = {MAIN}]
    /\ mres' = IF poison[1] THEN "err" ELSE "ok"
    /\ mpc' = "final_print"
    /\ UNCHANGED <<ctlVars, mi, final, joined, thrVars, poison, value,
                   rwVars, chVars, nonConcVars>>

\* Counter::get_value
get_value(v) == v

\* println!("Valor final ...", counter_guard.get_value()) in the Ok arm, the
\* error line in the Err arm; the guard is dropped at the end of the arm.
MainPrint ==
    /\ demo \in CounterDemos
    /\ mpc = "final_print"
    /\ final' = IF mres = "ok" THEN <<get_value(value)>> ELSE final
    /\ owner' = [owner EXCEPT ![1] = {}]
    /\ mpc' = "done"
    /\ UNCHANGED <<ctlVars, mi, mres, joined, thrVars, poison, value,
                   rwVars, chVars, nonConcVars>>

\* Abnormal termination of the holder inside the Ok arm (a panic while the
\* guard is alive): unwinding drops the guard, which poisons the mutex and
\* releases it; the thread's join will report Err.  Once the mutex is
\* poisoned no thread enters the Ok arm again, so this happens at most once.
HolderPanics(t) ==
    /\ demo \in CounterDemos
    /\ tpc[t] = "print"
    /\ lockres[t] = "ok"
    /\ poison' = [poison EXCEPT ![1] = TRUE]
    /\ owner' = [owner EXCEPT ![1] = {}]
    /\ tpc' = [tpc EXCEPT ![t] = "panicked"]
    /\ UNCHANGED <<ctlVars, mainVars, lockres, local, value,
                   rwVars, chVars, nonConcVars>>

NextCounter ==
    \/ MainSpawn
    \/ \E t \in Threads : WorkerLock(t)
    \/ \E t \in Threads : IncrementLoad(t)
    \/ \E t \in Threads : IncrementStore(t)
    \/ \E t \in Threads : WorkerPrint(t)
    \/ MainJoin
    \/ MainLock
    \/ MainPrint

\* The counter demonstrations as written.
SpecCounter == InitCounter /\ [][NextCounter]_vars

\* The counter demonstrations when a holder may terminate abnormally.
NextPoison == NextCounter \/ \E t \in Threads : HolderPanics(t)
InitPoison ==
    /\ Spawner("threads_correct", NumThreads)
    /\ MutexNew /\ value = 0
    /\ IdleRw /\ IdleChan /\ IdleSeq
SpecPoison == InitPoison /\ [][NextPoison]_vars

\* The threads whose increment has been written.
Incremented == {t \in Threads : lockres[t] = "ok" /\ tpc[t] \in {"print", "done", "panicked"}}

\* C1: N threads each increment the mutex-guarded Counter once; no
\* increment is lost (the counter always equals the number of increments
\* written so far) and the value the spawner reads after joining all N
\* threads is exactly N, for N in {1, 5, 10}.
C1_NoLostIncrement ==
    demo = "threads_correct" =>
        /\ n \in {1, 5, 10}
        /\ value = Cardinality(Incremented)
        /\ mpc = "done" => final = <<n>>

C1_Witness ==
    /\ demo = "threads_correct"
    /\ n = 10
    /\ mpc = "done"
    /\ final = <<10>>

\* C8: in the fixed counter demonstrations the spawner's final
\* lock-and-read is reached only when every thread it spawned has
\* terminated.
C8_ReadAfterJoin ==
    (demo \in CounterDemos \ BuggyDemos /\ mpc \in {"final_lock", "final_print", "done"}) =>
        \A t \in Threads : Terminated(t)

C8_Witness ==
    /\ demo = "synchronization_correct"
    /\ mpc = "final_print"
    /\ \A t \in Threads : tpc[t] = "done"
    /\ value = 45

\* C9: once the mutex is poisoned, a thread's lock() yields Err, which the
\* thread logs and skips: it leaves the counter alone, terminates normally
\* (its join is Ok) and never blocks the others; the spawner's final lock()
\* is treated the same way (no value read, the function completes).
C9_PoisonRecoverable ==
    demo = "threads_correct" =>
        /\ \A t \in Threads :
              /\ (poison[1] /\ lockres[t] = "ok") => tpc[t] \notin {"load", "store"}
              /\ lockres[t] = "err" =>
                    /\ poison[1]
                    /\ tpc[t] \in {"print", "done"}
                    /\ local[t] = 0
                    /\ joined[t] # "err"
        /\ value = Cardinality(Incremented)
        /\ (mpc \in {"final_print", "done"} /\ poison[1]) =>
              (mres = "err" /\ final = <<>>)
        /\ mpc # "panicked"
        /\ mpc # "done" => ENABLED NextCounter

C9_Witness ==
    /\ demo = "threads_correct"
    /\ poison[1]
    /\ \E t \in Threads : lockres[t] = "err" /\ joined[t] = "ok"
    /\ mpc = "done"
    /\ mres = "err"

\* demonstrate_arc_mutex_bugs: for i in 0..5, lock().unwrap(), increment;
\* the joins and the final read are commented out, so the function ends
\* right after the last spawn.
NumArcThreads == 5

InitArcMutex ==
    /\ Spawner("arc_mutex_bugs", NumArcThreads)
    /\ MutexNew /\ value = 0
    /\ IdleRw /\ IdleChan /\ IdleSeq

NextArcMutex ==
    \/ MainSpawn
    \/ \E t \in Threads : WorkerLock(t)
    \/ \E t \in Threads : IncrementLoad(t)
    \/ \E t \in Threads : IncrementStore(t)
    \/ \E t \in Threads : WorkerPrint(t)

SpecArcMutex == InitArcMutex /\ [][NextArcMutex]_vars

\* C29: demonstrate_arc_mutex_bugs never joins its 5 workers: the spawner
\* goes from its last spawn to the end of the function, where the counter
\* is the number of increments written so far, anything from 0 to 5; while
\* it is below 5 a worker can still run, and the counter moves by one.
C29_EndBeforeWorkers ==
    /\ [](demo = "arc_mutex_bugs" =>
             /\ mpc \in {"spawn", "done"}
             /\ \A t \in Threads : joined[t] = "none"
             /\ value = Cardinality(Incremented)
             /\ value \in 0 .. 5
             /\ (mpc = "done" /\ value < 5) =>
                   (ENABLED NextArcMutex /\ \E t \in Threads : ~Terminated(t)))
    /\ [][demo = "arc_mutex_bugs" => value' \in {value, value + 1}]_vars

C29_Witness ==
    /\ demo = "arc_mutex_bugs"
    /\ mpc = "done"
    /\ value = 0
    /\ \A t \in Threads : tpc[t] = "lock"

(***************************************************************************)
(* Mutex-guarded vector (demonstrate_error_handling_concurrency): worker i *)
(* locks, doubles data[i] when i < data.len(), and releases.  data[i] is   *)
(* element i + 1 of the sequence; indexing outside the vector panics,      *)
(* which poisons the mutex as the guard is dropped during unwinding.       *)
(***************************************************************************)
\* for i in 0..5
NumWorkers == 5

InitVec ==
    /\ Spawner("error_handling_concurrency", NumWorkers)
    /\ vec = <<1, 2, 3>>
    /\ readers = {} /\ writer = {} /\ seen = <<>>
    /\ MutexNew /\ value = 0
    /\ IdleChan /\ IdleSeq

\* match data_clone.lock(): Ok(data) unless poisoned; the Err arm logs.
VecLock(t) ==
    /\ demo \in VecDemos
    /\ tpc[t] = "vec_lock"
    /\ CanLock(1)
    /\ owner' = [owner EXCEPT ![1] = {t}]
    /\ lockres' = [lockres EXCEPT ![t] = IF poison[1] THEN "err" ELSE "ok"]
    /\ tpc' = [tpc EXCEPT ![t] = IF poison[1] THEN "vec_print" ELSE "vec_check"]
    /\ UNCHANGED <<ctlVars, mainVars, local, poison, value,
                   rwVars, chVars, nonConcVars>>

\* i < data.len()
in_rangeInclusive(i, data) == i <= Len(data)
in_range(i, data) == i < Len(data)

\* if i < data.len() { .. } else { .. }
VecCheck(t) ==
    /\ demo \in VecDemos
    /\ tpc[t] = "vec_check"
    /\ tpc' = [tpc EXCEPT ![t] = IF in_range(t, vec) THEN "vec_double" ELSE "vec_print"]
    /\ UNCHANGED <<ctlVars, mainVars, lockres, local, mtxVars,
                   rwVars, chVars, nonConcVars>>

\* data[i] *= 2: the index is bounds-checked; outside the vector the thread
\* panics with the guard alive.
VecDouble(t) ==
    /\ demo \in VecDemos
    /\ tpc[t] = "vec_double"
    /\ IF t + 1 \in DOMAIN vec
          THEN /\ vec' = [vec EXCEPT ![t + 1] = @ * 2]
               /\ tpc' = [tpc EXCEPT ![t] = "vec_print"]
               /\ UNCHANGED <<owner, poison>>
          ELSE /\ vec' = vec
               /\ poison' = [poison EXCEPT ![1] = TRUE]
               /\ owner' = [owner EXCEPT ![1] = {}]
               /\ tpc' = [tpc EXCEPT ![t] = "panicked"]
    /\ UNCHANGED <<ctlVars, mainVars, lockres, local, value,
                   readers, writer, seen, chVars, nonConcVars>>

\* println! of the arm taken; the guard is dropped at the end of the match
\* and the closure returns.
VecPrint(t) ==
    /\ demo \in VecDemos
    /\ tpc[t] = "vec_print"
    /\ owner' = [owner EXCEPT ![1] = {}]
    /\ tpc' = [tpc EXCEPT ![t] = "done"]
    /\ UNCHANGED <<ctlVars, mainVars, lockres, local, poison, value,
                   rwVars, chVars, nonConcVars>>

\* match shared_data.lock() after the joins.
VecMainLock ==
    /\ demo \in VecDemos
    /\ mpc = "vec_final_lock"
    /\ CanLock(1)
    /\ owner' = [owner EXCEPT ![1] = {MAIN}]
    /\ mres' = IF poison[1] THEN "err" ELSE "ok"
    /\ mpc' = "vec_final_print"
    /\ UNCHANGED <<ctlVars, mi, final, joined, thrVars, poison, value,
                   rwVars, chVars, nonConcVars>>

\* println!("Datos finales: {:?}", *data) in the Ok arm.
VecMainPrint ==
    /\ demo \in VecDemos
    /\ mpc = "vec_final_print"
    /\ final' = IF mres = "ok" THEN <<vec>> ELSE final
    /\ owner' = [owner EXCEPT ![1] = {}]
    /\ mpc' = "done"
    /\ UNCHANGED <<ctlVars, mi, mres, joined, thrVars, poison, value,
                   rwVars, chVars, nonConcVars>>

NextVec ==
    \/ MainSpawn
    \/ MainJoin
    \/ VecMainLock
    \/ VecMainPrint
    \/ \E t \in Threads : VecLock(t)
    \/ \E t \in Threads : VecCheck(t)
    \/ \E t \in Threads : VecDouble(t)
    \/ \E t \in Threads : VecPrint(t)

SpecVec == InitVec /\ [][NextVec]_vars

\* C27: in demonstrate_error_handling_concurrency worker i doubles element i
\* of [1,2,3] only when i is below the length: no worker indexes out of
\* range or terminates abnormally while holding the lock, the lock is never
\* poisoned, every join succeeds, and the final vector is [2,4,6].
C27_GuardedVectorDoubled ==
    demo \in VecDemos =>
        /\ \A t \in Threads :
              /\ tpc[t] = "vec_double" => (t < Len(vec) /\ owner[1] = {t})
              /\ tpc[t] # "panicked"
              /\ lockres[t] # "err"
              /\ joined[t] # "err"
        /\ ~poison[1]
        /\ Len(vec) = 3
        /\ mpc # "panicked"
        /\ mpc = "done" =>
              /\ \A t \in Threads : joined[t] = "ok"
              /\ mres = "ok"
              /\ final = << <<2, 4, 6>> >>

C27_Witness ==
    /\ demo = "error_handling_concurrency"
    /\ mpc = "done"
    /\ final = << <<2, 4, 6>> >>
    /\ \A t \in Threads : joined[t] = "ok"

(***************************************************************************)
(* Two mutexes acquired one after the other.                               *)
(***************************************************************************)
\* The two threads of the lock-ordering functions: handle1 is thread 0,
\* handle2 is thread 1.
LockThreads == {0, 1}

\* The mutex thread t locks first: resource1, except for the second thread
\* of the buggy file, which starts with resource2.
FirstOpposite(d, t) == IF t = 1 THEN 2 ELSE 1
First(d, t) == IF d = "deadlock_bugs" /\ t = 1 THEN 2 ELSE 1
\* The mutex thread t locks second: the other one.
Second(d, t) == IF First(d, t) = 1 THEN 2 ELSE 1

InitLocks ==
    /\ \E d \in LockDemos : Spawner(d, Cardinality(LockThreads))
    /\ MutexNew /\ value = 0
    /\ IdleRw /\ IdleChan /\ IdleSeq

\* The first lock(): res1_clone.lock() (res2_clone2.lock() for the second
\* thread of the buggy file).
LockFirst(t) ==
    /\ demo \in LockDemos
    /\ tpc[t] = "lock_a"
    /\ CanLock(First(demo, t))
    /\ IF ~poison[First(demo, t)]
          THEN /\ owner' = [owner EXCEPT ![First(demo, t)] = {t}]
               /\ lockres' = [lockres EXCEPT ![t] = "first"]
               /\ tpc' = [tpc EXCEPT ![t] = "sleep"]
          ELSE /\ lockres' = [lockres EXCEPT ![t] = "err"]
               /\ IF Handling(demo) = "match"
                     THEN /\ owner' = [owner EXCEPT ![First(demo, t)] = {t}]
                          /\ tpc' = [tpc EXCEPT ![t] = "drop_a"]
                     ELSE /\ owner' = owner
                          /\ tpc' = [tpc EXCEPT ![t] = "panicked"]
    /\ UNCHANGED <<ctlVars, mainVars, local, poison, value,
                   rwVars, chVars, nonConcVars>>

\* thread::sleep while holding the first guard.
Sleep(t) ==
    /\ demo \in LockDemos
    /\ tpc[t] = "sleep"
    /\ tpc' = [tpc EXCEPT ![t] = "lock_b"]
    /\ UNCHANGED <<ctlVars, mainVars, lockres, local, mtxVars,
                   rwVars, chVars, nonConcVars>>

\* The second lock(), with the first guard held.  unwrap() on Err panics:
\* unwinding drops the first guard, which poisons and releases its mutex.
LockSecond(t) ==
    /\ demo \in LockDemos
    /\ tpc[t] = "lock_b"
    /\ CanLock(Second(demo, t))
    /\ IF ~poison[Second(demo, t)]
          THEN /\ owner' = [owner EXCEPT ![Second(demo, t)] = {t}]
               /\ lockres' = [lockres EXCEPT ![t] = "both"]
               /\ tpc' = [tpc EXCEPT ![t] = "print"]
               /\ poison' = poison
          ELSE /\ lockres' = [lockres EXCEPT ![t] = "err"]
               /\ IF Handling(demo) = "match"
                     THEN /\ owner' = [owner EXCEPT ![Second(demo, t)] = {t}]
                          /\ tpc' = [tpc EXCEPT ![t] = "print"]
                          /\ poison' = poison
                     ELSE /\ owner' = [owner EXCEPT ![First(demo, t)] = {}]
                          /\ tpc' = [tpc EXCEPT ![t] = "panicked"]
                          /\ poison' = [poison EXCEPT ![First(demo, t)] = TRUE]
    /\ UNCHANGED <<ctlVars, mainVars, local, value,
                   rwVars, chVars, nonConcVars>>

\* println!("Thread .. adquirió ambos locks") (or the error line); then the
\* second guard goes out of scope.
PrintBoth(t) ==
    /\ demo \in LockDemos
    /\ tpc[t] = "print"
    /\ owner' = [owner EXCEPT ![Second(demo, t)] = {}]
    /\ tpc' = [tpc EXCEPT ![t] = "drop_a"]
    /\ UNCHANGED <<ctlVars, mainVars, lockres, local, poison, value,
                   rwVars, chVars, nonConcVars>>

\* The first guard goes out of scope and the closure returns.
DropFirst(t) ==
    /\ demo \in LockDemos
    /\ tpc[t] = "drop_a"
    /\ owner' = [owner EXCEPT ![First(demo, t)] = {}]
    /\ tpc' = [tpc EXCEPT ![t] = "done"]
    /\ UNCHANGED <<ctlVars, mainVars, lockres, local, poison, value,
                   rwVars, chVars, nonConcVars>>

\* One step of thread t of a lock-ordering function.
LockThreadStep(t) ==
    LockFirst(t) \/ Sleep(t) \/ LockSecond(t) \/ PrintBoth(t) \/ DropFirst(t)

NextLocks ==
    \/ MainSpawn
    \/ MainJoin
    \/ \E t \in Threads : LockFirst(t)
    \/ \E t \in Threads : Sleep(t)
    \/ \E t \in Threads : LockSecond(t)
    \/ \E t \in Threads : PrintBoth(t)
    \/ \E t \in Threads : DropFirst(t)

SpecLocks == InitLocks /\ [][NextLocks]_vars

\* The scheduler runs every thread that can take a step: the spawner and
\* each spawned thread.
FairSpecLocks ==
    /\ SpecLocks
    /\ WF_vars(MainSpawn \/ MainJoin)
    /\ \A t \in LockThreads : WF_vars(LockThreadStep(t))

\* Thread t waits in lock() for a mutex another thread holds.
Blocked(t) ==
    \/ tpc[t] = "lock_a" /\ ~CanLock(First(demo, t))
    \/ tpc[t] = "lock_b" /\ ~CanLock(Second(demo, t))

PreventionDemos == {"deadlock_prevention", "test_deadlock_prevention"}

\* C2: when both threads lock resource1 then resource2, no reachable state
\* has both threads blocked, and every run ends with both threads having
\* acquired both locks and terminated and both joins returned.
C2_OrderedLocksTerminate ==
    /\ [](demo \in PreventionDemos => ~(\A t \in LockThreads : Blocked(t)))
    /\ (demo \in PreventionDemos =>
           <>(/\ mpc = "done"
              /\ \A t \in LockThreads :
                    tpc[t] = "done" /\ lockres[t] = "both" /\ joined[t] = "ok"))

C2_Witness ==
    /\ demo = "deadlock_prevention"
    /\ mpc = "done"
    /\ \A t \in LockThreads : tpc[t] = "done" /\ lockres[t] = "both" /\ joined[t] = "ok"
    /\ \A r \in Resources : owner[r] = {}

\* Thread 1 holds resource1 and waits for resource2 while thread 2 holds
\* resource2 and waits for resource1.
Deadlocked ==
    /\ demo = "deadlock_bugs"
    /\ tpc[0] = "lock_b" /\ owner[1] = {0}
    /\ tpc[1] = "lock_b" /\ owner[2] = {1}

\* C3: in the buggy variant (opposite lock orders) the circular wait is
\* reachable, and in it no step of either thread (or of the function) is
\* possible any more, so neither thread ever proceeds.
C3_OppositeOrderDeadlocks ==
    /\ Deadlocked => ~ENABLED NextLocks
    /\ (demo = "deadlock_bugs" /\ \A t \in LockThreads : Blocked(t)) => Deadlocked

C3_Witness == Deadlocked

(***************************************************************************)
(* Multiple-producer/single-consumer channel.                              *)
(***************************************************************************)
\* The largest number of cloned senders the channel test is run with (the
\* test itself clones 3).
MaxSenders == 3
\* demonstrate_channels_correct clones tx1 and tx2.
DemoSenders == {0, 1}
ChannelThreads == 0 .. (MaxSenders - 1)

\* The message thread t sends ("Mensaje del thread 1", "Message from
\* thread 0", ...): one distinct message per thread.
Message(t) == t

\* mpsc::channel(): the original sender tx is alive, held by the spawner;
\* demonstrate_channels_correct clones tx1 and tx2 before it spawns.
InitChannel ==
    /\ \/ Spawner("channels_correct", Cardinality(DemoSenders)) /\ senders = DemoSenders \cup {MAIN}
       \/ \E k \in 1 .. MaxSenders :
             Spawner("test_channels_multiple_senders", k) /\ senders = {MAIN}
    /\ queue = <<>>
    /\ messages = <<>>
    /\ MutexNew /\ value = 0
    /\ IdleRw /\ IdleSeq

\* tx_clone.send(msg): appends to the queue (the receiver is alive).
Send(t) ==
    /\ demo \in ChannelDemos
    /\ tpc[t] = "send"
    /\ queue' = Append(queue, Message(t))
    /\ tpc' = [tpc EXCEPT ![t] = "exit"]
    /\ UNCHANGED <<ctlVars, mainVars, lockres, local, mtxVars,
                   rwVars, senders, messages, nonConcVars>>

\* The closure returns (after the println! of the demo): the sender clone it
\* owns is dropped and the thread terminates.
SenderExit(t) ==
    /\ demo \in ChannelDemos
    /\ tpc[t] = "exit"
    /\ senders' = senders \ {t}
    /\ tpc' = [tpc EXCEPT ![t] = "done"]
    /\ UNCHANGED <<ctlVars, mainVars, lockres, local, mtxVars,
                   rwVars, queue, messages, nonConcVars>>

\* The senders alive after drop(tx).
KeepTx(S) == S
DropTx(S) == S \ {MAIN}

\* drop(tx): the spawner releases the original sender.
MainDropTx ==
    /\ demo \in ChannelDemos
    /\ mpc = "drop_tx"
    /\ senders' = DropTx(senders)
    /\ mpc' = "recv"
    /\ UNCHANGED <<ctlVars, mi, mres, final, joined, thrVars, mtxVars,
                   rwVars, queue, messages, nonConcVars>>

\* rx.recv() returns Err: the queue is empty and every sender is dropped.
DisconnectedWhenEmpty == queue = <<>>
Disconnected == queue = <<>> /\ senders = {}

\* while let Ok(msg) = rx.recv() { .. }: one call of recv.  It takes the head
\* of the queue into the loop body (messages.push(msg) / println!), leaves
\* the loop on Err, and blocks otherwise.
MainRecv ==
    /\ demo \in ChannelDemos
    /\ mpc = "recv"
    /\ queue # <<>> \/ Disconnected
    /\ IF Disconnected
          THEN /\ mpc' = "join"
               /\ UNCHANGED <<queue, messages>>
          ELSE /\ messages' = Append(messages, Head(queue))
               /\ queue' = Tail(queue)
               /\ mpc' = mpc
    /\ UNCHANGED <<ctlVars, mi, mres, final, joined, thrVars, mtxVars,
                   rwVars, senders, nonConcVars>>

\* One step of thread t of a channel function.
SenderStep(t) == t \in Threads /\ (Send(t) \/ SenderExit(t))

\* One step of the spawner of a channel function.
ChannelMainStep == MainSpawn \/ MainDropTx \/ MainRecv \/ MainJoin

NextChannel ==
    \/ MainSpawn
    \/ MainDropTx
    \/ MainRecv
    \/ MainJoin
    \/ \E t \in Threads : Send(t)
    \/ \E t \in Threads : SenderExit(t)

SpecChannel == InitChannel /\ [][NextChannel]_vars

\* The scheduler runs every thread that can take a step.
FairSpecChannel ==
    /\ SpecChannel
    /\ WF_vars(ChannelMainStep)
    /\ \A t \in ChannelThreads : WF_vars(SenderStep(t))

\* The number of times message m occurs in sequence s.
Count(s, m) == Cardinality({i \in DOMAIN s : s[i] = m})

\* C4: with k cloned senders each sending one distinct message and the
\* original sender dropped, the drain loop collects exactly k messages:
\* every message sent is in flight or received exactly once at any time, and
\* when the loop has ended each of the k messages has been received exactly
\* once (k in 1 .. MaxSenders, which covers 1 and 3).
C4_ExactlyOnce ==
    demo \in ChannelDemos =>
        /\ \A t \in Threads :
              Count(queue, Message(t)) + Count(messages, Message(t))
                  = IF tpc[t] \in {"exit", "done"} THEN 1 ELSE 0
        /\ mpc \in {"join", "done"} =>
              /\ Len(messages) = n
              /\ queue = <<>>
              /\ \A t \in Threads : Count(messages, Message(t)) = 1

C4_Witness ==
    /\ demo = "test_channels_multiple_senders"
    /\ n = 3
    /\ mpc = "done"
    /\ Len(messages) = 3
    /\ messages[1] = Message(2)

\* C5: the receive loop terminates: every sender (the clones and the
\* original) is eventually released and the queue drained, recv then
\* reports disconnection, the loop exits and the joins return.
C5_RecvLoopTerminates ==
    /\ [](demo \in ChannelDemos /\ mpc \in {"join", "done"} =>
             senders = {} /\ queue = <<>>)
    /\ (demo \in ChannelDemos =>
           <>(mpc = "done" /\ \A t \in Threads : joined[t] = "ok"))

C5_Witness ==
    /\ demo = "channels_correct"
    /\ mpc = "done"
    /\ senders = {}
    /\ queue = <<>>
    /\ \A t \in Threads : joined[t] = "ok"
    /\ Len(messages) = 2

\* The channel functions beside demonstrate_channels_correct without its
\* drop(tx): the original sender stays alive in the spawner throughout.
InitKeepTx ==
    \/ InitChannel
    \/ /\ Spawner("channels_without_drop", Cardinality(DemoSenders))
       /\ senders = DemoSenders \cup {MAIN}
       /\ queue = <<>>
       /\ messages = <<>>
       /\ MutexNew /\ value = 0
       /\ IdleRw /\ IdleSeq

SpecKeepTx == InitKeepTx /\ [][NextChannel]_vars

FairSpecKeepTx ==
    /\ SpecKeepTx
    /\ WF_vars(ChannelMainStep)
    /\ \A t \in ChannelThreads : WF_vars(SenderStep(t))

\* C28: dropping the original sender before the receive loop is necessary
\* for termination: with the original sender alive the loop never exits,
\* even after both threads have sent their message and finished (the
\* spawner ends up blocked in recv for ever), and no join is reached.
C28_LoopNeedsDrop ==
    /\ [](demo = "channels_without_drop" =>
             /\ mpc \in {"spawn", "recv"}
             /\ MAIN \in senders
             /\ \A t \in Threads : joined[t] = "none")
    /\ (demo = "channels_without_drop" =>
           <>[](/\ mpc = "recv"
                /\ \A t \in Threads : tpc[t] = "done"
                /\ queue = <<>>
                /\ Len(messages) = n))

C28_Witness ==
    /\ demo = "channels_without_drop"
    /\ mpc = "recv"
    /\ \A t \in Threads : tpc[t] = "done"
    /\ senders = {MAIN}
    /\ queue = <<>>
    /\ Len(messages) = 2
    /\ ~ENABLED NextChannel

(***************************************************************************)
(* Read/write-locked vector.  demonstrate_rwlock_correct: threads 0..2     *)
(* push i onto [1,2,3,4,5], thread 3 reads.  test_rwlock_multiple_threads: *)
(* threads 0..2 read [1,2,3], thread 3 pushes 4, the spawner reads last.   *)
(* No holder of a guard panics, so the lock is never poisoned.             *)
(***************************************************************************)
RwThreads == 0 .. 3

\* vec![1, 2, 3, 4, 5] and vec![1, 2, 3].
InitialVec(d) == IF d = "rwlock_correct" THEN <<1, 2, 3, 4, 5>> ELSE <<1, 2, 3>>

\* writer.push(i) in the demo, writer.push(4) in the test.
Pushed(d, t) == IF d = "rwlock_correct" THEN t ELSE 4

\* The threads of function d that write, and those that read.
Writers(d) == {t \in RwThreads : FirstLabel(d, t) = "write"}
Readers(d) == {t \in RwThreads : FirstLabel(d, t) = "read"}

InitRwLock ==
    /\ \E d \in RwDemos : Spawner(d, Cardinality(RwThreads)) /\ vec = InitialVec(d)
    /\ readers = {}
    /\ writer = {}
    /\ seen = [t \in RwThreads |-> <<>>]
    /\ MutexNew /\ value = 0
    /\ IdleChan /\ IdleSeq

\* RwLock::read returns while no writer holds the lock.
CanReadAlways == TRUE
CanRead == writer = {}
\* RwLock::write returns while neither a writer nor a reader holds it.
CanWriteNoReaders == writer = {}
CanWrite == writer = {} /\ readers = {}

\* data_clone.write()
WriteLock(t) ==
    /\ demo \in RwDemos
    /\ tpc[t] = "write"
    /\ CanWrite
    /\ writer' = writer \cup {t}
    /\ tpc' = [tpc EXCEPT ![t] = "push"]
    /\ UNCHANGED <<ctlVars, mainVars, lockres, local, mtxVars,
                   readers, vec, seen, chVars, nonConcVars>>

\* writer.push(..)
Push(t) ==
    /\ demo \in RwDemos
    /\ tpc[t] = "push"
    /\ vec' = Append(vec, Pushed(demo, t))
    /\ tpc' = [tpc EXCEPT ![t] = "wprint"]
    /\ UNCHANGED <<ctlVars, mainVars, lockres, local, mtxVars,
                   readers, writer, seen, chVars, nonConcVars>>

\* println!(.., *writer); the write guard is dropped and the closure returns.
WriterPrint(t) ==
    /\ demo \in RwDemos
    /\ tpc[t] = "wprint"
    /\ seen' = [seen EXCEPT ![t] = vec]
    /\ writer' = writer \ {t}
    /\ tpc' = [tpc EXCEPT ![t] = "done"]
    /\ UNCHANGED <<ctlVars, mainVars, lockres, local, mtxVars,
                   readers, vec, chVars, nonConcVars>>

\* data_clone.read()
ReadLock(t) ==
    /\ demo \in RwDemos
    /\ tpc[t] = "read"
    /\ CanRead
    /\ readers' = readers \cup {t}
    /\ tpc' = [tpc EXCEPT ![t] = "rprint"]
    /\ UNCHANGED <<ctlVars, mainVars, lockres, local, mtxVars,
                   writer, vec, seen, chVars, nonConcVars>>

\* println!(.., *reader); the read guard is dropped and the closure returns.
ReaderPrint(t) ==
    /\ demo \in RwDemos
    /\ tpc[t] = "rprint"
    /\ seen' = [seen EXCEPT ![t] = vec]
    /\ readers' = readers \ {t}
    /\ tpc' = [tpc EXCEPT ![t] = "done"]
    /\ UNCHANGED <<ctlVars, mainVars, lockres, local, mtxVars,
                   writer, vec, chVars, nonConcVars>>

\* let reader = data.read().unwrap() in the test, after the joins.
MainRead ==
    /\ demo \in RwDemos
    /\ mpc = "final_read"
    /\ CanRead
    /\ readers' = readers \cup {MAIN}
    /\ mpc' = "final_assert"
    /\ UNCHANGED <<ctlVars, mi, mres, final, joined, thrVars, mtxVars,
                   writer, vec, seen, chVars, nonConcVars>>

\* assert_eq!(*reader, ..): the spawner's read of the vector; the guard is
\* dropped at the end of the test.
MainAssert ==
    /\ demo \in RwDemos
    /\ mpc = "final_assert"
    /\ final' = <<vec>>
    /\ readers' = readers \ {MAIN}
    /\ mpc' = "done"
    /\ UNCHANGED <<ctlVars, mi, mres, joined, thrVars, mtxVars,
                   writer, vec, seen, chVars, nonConcVars>>

NextRwLock ==
    \/ MainSpawn
    \/ MainJoin
    \/ MainRead
    \/ MainAssert
    \/ \E t \in Threads : WriteLock(t)
    \/ \E t \in Threads : Push(t)
    \/ \E t \in Threads : WriterPrint(t)
    \/ \E t \in Threads : ReadLock(t)
    \/ \E t \in Threads : ReaderPrint(t)

SpecRwLock == InitRwLock /\ [][NextRwLock]_vars

\* The threads inside a write guard's scope, and inside a read guard's.
WriteHolders == {t \in Threads : tpc[t] \in {"push", "wprint"}}
ReadHolders ==
    {t \in Threads : tpc[t] = "rprint"}
        \cup (IF mpc = "final_assert" THEN {MAIN} ELSE {})

\* C6: in every reachable state of the read/write-locked vector either no
\* writer holds the lock (any number of readers may) or exactly one writer
\* holds it and no reader does.
C6_ReadersXorWriter ==
    demo \in RwDemos =>
        /\ writer = WriteHolders
        /\ readers = ReadHolders
        /\ \/ WriteHolders = {}
           \/ Cardinality(WriteHolders) = 1 /\ ReadHolders = {}

C6_Witness ==
    /\ demo = "test_rwlock_multiple_threads"
    /\ Cardinality(readers) = 3
    /\ writer = {}
    /\ \E t \in Threads : tpc[t] = "write"

\* C7: in test_rwlock_multiple_threads every reader observes the complete
\* [1,2,3] or the complete [1,2,3,4]; the vector does not change while a
\* reader holds its guard, and a reader that holds its guard once the
\* writer has released has [1,2,3,4] before it, which is what it observes;
\* after the joins the vector is [1,2,3,4].
C7_ConsistentSnapshots ==
    /\ [](demo = "test_rwlock_multiple_threads" =>
            /\ \A t \in Readers(demo) : seen[t] \in {<<>>, <<1, 2, 3>>, <<1, 2, 3, 4>>}
            /\ \A t \in Readers(demo) :
                  (tpc[t] = "rprint" /\ \A w \in Writers(demo) : tpc[w] = "done")
                      => vec = <<1, 2, 3, 4>>
            /\ mpc \in {"final_read", "final_assert", "done"} => vec = <<1, 2, 3, 4>>
            /\ mpc = "done" => final = << <<1, 2, 3, 4>> >>)
    /\ [][demo = "test_rwlock_multiple_threads" =>
            \A t \in Readers(demo) :
                tpc[t] = "rprint" =>
                    /\ vec' = vec
                    /\ tpc'[t] = "done" => seen'[t] = vec]_vars

C7_Witness ==
    /\ demo = "test_rwlock_multiple_threads"
    /\ mpc = "done"
    /\ final = << <<1, 2, 3, 4>> >>
    /\ \E t, u \in Readers(demo) : seen[t] = <<1, 2, 3>> /\ seen[u] = <<1, 2, 3, 4>>

\* C26: in demonstrate_rwlock_correct the reader thread reads only after all
\* three writer threads have finished, so it always observes all 8 elements
\* (the 5 initial ones followed by the 3 pushed ones).
C26_ReaderSeesAllWrites ==
    demo = "rwlock_correct" =>
        \A t \in Readers(demo) :
            /\ tpc[t] = "rprint" => \A w \in Writers(demo) : tpc[w] = "done"
            /\ tpc[t] = "done" =>
                  /\ Len(seen[t]) = 8
                  /\ SubSeq(seen[t], 1, 5) = <<1, 2, 3, 4, 5>>
                  /\ {seen[t][i] : i \in 6 .. 8} = {0, 1, 2}

(***************************************************************************)
(* Config (error_handling_basics_fixed.rs).                                *)
(***************************************************************************)
\* No concurrency demonstration is running.
IdleConc ==
    /\ Spawner("none", 0)
    /\ MutexNew /\ value = 0
    /\ IdleRw /\ IdleChan

\* Arguments Config::new is called with (u16 port, host, u64 timeout).
Ports == {0, 8080, 65535}
Hosts == {"", "localhost"}
Timeouts == {0, 30}

\* Strings set_debug_level is called with: the five levels, and strings that
\* are not levels (other case, a longer word, the empty string).
LevelInputs ==
    {"trace", "debug", "info", "warn", "error",
     "", "invalid", "bogus", "INFO", "Debug", "warning", "verbose"}

\* Config::new
new(port, host, timeout) ==
    [port |-> port, host |-> host, timeout |-> timeout, debug_level |-> "info"]

\* let valid_levels = ["trace", "debug", "info", "warn", "error"];
valid_levelsAnyCase ==
    <<"trace", "debug", "info", "warn", "error", "INFO", "Debug">>
valid_levels == <<"trace", "debug", "info", "warn", "error">>

\* <[&str]>::contains: exact comparison with each element.
containsAnything(s, x) == TRUE
containsFirst(s, x) == s[1] = x
contains(s, x) == \E i \in DOMAIN s : s[i] = x

\* Config::get_debug_level
get_debug_level(c) == c.debug_level

InitConfig ==
    /\ \E port \in Ports, host \in Hosts, timeout \in Timeouts :
          config = new(port, host, timeout)
    /\ arg = ""
    /\ ret = "none"
    /\ IdleConc
    /\ IdleFn /\ IdleUser /\ IdleRc

\* Config::set_debug_level
set_debug_level(level) ==
    /\ arg' = level
    /\ IF contains(valid_levels, level)
          THEN /\ config' = [config EXCEPT !.debug_level = level]
               /\ ret' = "Ok"
          ELSE /\ config' = config
               /\ ret' = "Err"
    /\ UNCHANGED nonCfgVars

NextConfig == \E level \in LevelInputs : set_debug_level(level)

SpecConfig == InitConfig /\ [][NextConfig]_vars

\* C10: for a Config created by Config::new, after any sequence of
\* set_debug_level calls with arbitrary strings the debug level is one of
\* trace, debug, info, warn, error.
C10_DebugLevelValid ==
    get_debug_level(config) \in {"trace", "debug", "info", "warn", "error"}

C10_Witness ==
    /\ ret = "Err"
    /\ arg = "INFO"
    /\ get_debug_level(config) = "warn"

\* The five recognized levels, as the documentation names them.
RecognizedLevels == {"trace", "debug", "info", "warn", "error"}

\* C11: a call of set_debug_level with a string that is not one of the five
\* recognized levels returns Err and leaves the Config as it was:
\* get_debug_level returns the same value after the call as before it.
C11_InvalidLevelRejected ==
    [][ (arg' \notin RecognizedLevels) =>
            /\ ret' = "Err"
            /\ get_debug_level(config') = get_debug_level(config)
            /\ config' = config ]_vars

C11_Witness ==
    /\ ret = "Err"
    /\ arg = "bogus"
    /\ get_debug_level(config) = "debug"

\* C12: a call of set_debug_level with one of the five recognized levels
\* returns Ok whatever the Config held before, and get_debug_level then
\* returns exactly that level.
C12_ValidLevelAccepted ==
    [][ (arg' \in RecognizedLevels) =>
            /\ ret' = "Ok"
            /\ get_debug_level(config') = arg' ]_vars

C12_Witness ==
    /\ ret = "Ok"
    /\ arg = "trace"
    /\ get_debug_level(config) = "trace"

(***************************************************************************)
(* Port validation and Config loading (error_handling_basics_fixed.rs).    *)
(* A port text is a sequence of one-character strings; str::parse::<u16>   *)
(* is modelled as core::num does it: an empty text is an error, one        *)
(* leading "+" is skipped (a lone sign is an error, "-" is no digit for an *)
(* unsigned type), then every character must be a decimal digit and the    *)
(* accumulated value must stay within u16 at every step.                   *)
(***************************************************************************)
\* Nothing but a free function is running.
IdleNonFn == IdleConc /\ IdleCfg /\ IdleUser /\ IdleRc

nonFnVars == <<concVars, cfgVars, userVars, rcVars>>

\* Result<T, E> of the free functions: Ok(value), or an error of some kind
\* carrying a message (the pieces of the formatted string).
Ok(v) == [kind |-> "Ok", value |-> <<v>>, msg |-> <<>>]
Err(kind, msg) == [kind |-> kind, value |-> <<>>, msg |-> msg]

U16Max == 65535
MaxPortLen == 5

DigitChars == <<"0", "1", "2", "3", "4", "5", "6", "7", "8", "9">>

\* char::to_digit(10): Some(d) as <<d>>, None as <<>>.
to_digit(c) ==
    IF \E d \in DOMAIN DigitChars : DigitChars[d] = c
       THEN <<(CHOOSE d \in DOMAIN DigitChars : DigitChars[d] = c) - 1>>
       ELSE <<>>

\* u16::checked_mul, u16::checked_add; the wrapping variants are mutations.
wrapping_mul(a, b) == <<(a * b) % (U16Max + 1)>>
checked_mul(a, b) == IF a * b > U16Max THEN <<>> ELSE <<a * b>>
wrapping_add(a, b) == <<(a + b) % (U16Max + 1)>>
checked_add(a, b) == IF a + b > U16Max THEN <<>> ELSE <<a + b>>

\* The digit loop of the integer parser, from character i on.
RECURSIVE parse_digits(_, _, _)
parse_digits(digits, i, acc) ==
    IF i > Len(digits)
       THEN Ok(acc)
       ELSE LET mul == checked_mul(acc, 10)
                x == to_digit(digits[i])
            IN  IF x = <<>> THEN Err("InvalidDigit", <<>>)
                ELSE IF mul = <<>> THEN Err("PosOverflow", <<>>)
                ELSE LET sum == checked_add(mul[1], x[1])
                     IN  IF sum = <<>> THEN Err("PosOverflow", <<>>)
                         ELSE parse_digits(digits, i + 1, sum[1])

\* port_str.parse::<u16>()
parse_u16(src) ==
    IF Len(src) = 0 THEN Err("Empty", <<>>)
    ELSE IF src[1] \in {"+", "-"} /\ Len(src) = 1 THEN Err("InvalidDigit", <<>>)
    ELSE IF src[1] = "+" THEN parse_digits(Tail(src), 1, 0)
    ELSE parse_digits(src, 1, 0)

\* fn validate_port_safe(port_str: &str) -> Result<u16, String>
validate_port_safe(port_str) ==
    LET parsed == parse_u16(port_str) IN
    IF parsed.kind # "Ok"
       THEN Err("Err", <<"'">> \o port_str \o <<"' no es un número válido">>)
       ELSE LET port == parsed.value[1] IN
            IF port = 0 THEN Err("Err", <<"Puerto no puede ser 0">>)
            ELSE IF port > 65535
                    THEN Err("Err", <<"Puerto no puede ser mayor a 65535">>)
            ELSE Ok(port)

\* host.is_empty()
is_empty(s) == s = ""

\* A mutation of load_config: the host is checked before the port.
load_configHostFirst(port_str, host) ==
    IF is_empty(host)
       THEN Err("InvalidHost", <<"Host no puede estar vacío">>)
    ELSE LET parsed == parse_u16(port_str) IN
    IF parsed.kind # "Ok"
       THEN Err("ParseError", <<"No se pudo parsear puerto: ">> \o port_str)
    ELSE IF parsed.value[1] = 0
       THEN Err("InvalidPort", <<"Puerto no puede ser 0">>)
    ELSE Ok(new(parsed.value[1], host, 30))

\* fn load_config(port_str: &str, host: &str) -> Result<Config, ConfigError>
load_config(port_str, host) ==
    LET parsed == parse_u16(port_str) IN
    IF parsed.kind # "Ok"
       THEN Err("ParseError", <<"No se pudo parsear puerto: ">> \o port_str)
       ELSE LET port == parsed.value[1] IN
            IF port = 0
               THEN Err("InvalidPort", <<"Puerto no puede ser 0">>)
            ELSE IF is_empty(host)
               THEN Err("InvalidHost", <<"Host no puede estar vacío">>)
            ELSE Ok(new(port, host, 30))

\* All texts over S of length at most k.
SeqsUpTo(S, k) == UNION {[1 .. m -> S] : m \in 0 .. k}

\* The characters port texts are drawn from: the digits of the u16 limit
\* 65535 and of its successor, a sign, a letter and a blank; and the texts
\* the demonstration and the tests use.
PortChars == {"0", "3", "5", "6", "+", "a"}
TestPorts ==
    { <<"8", "0", "8", "0">>, <<"9", "9", "9", "9", "9">>, <<"a", "b", "c">>,
      <<"-", "1">>, <<"-", "0">>, <<"-">>, <<" ", "8", "0">>, <<"8", "0", " ">>,
      <<"1", "2", ".", "3", "4">>,
      <<"n", "o", "t", "_", "a", "_", "n", "u", "m", "b", "e", "r">> }
PortTexts == SeqsUpTo(PortChars, MaxPortLen) \cup TestPorts

InitParse ==
    /\ call = "none"
    /\ \E s \in PortTexts, h \in Hosts : input = [port_str |-> s, host |-> h]
    /\ locals = <<>>
    /\ result = NoResult
    /\ IdleNonFn

CallValidatePortSafe ==
    /\ call = "none"
    /\ call' = "validate_port_safe"
    /\ result' = validate_port_safe(input.port_str)
    /\ UNCHANGED <<input, locals, nonFnVars>>

CallLoadConfig ==
    /\ call = "none"
    /\ call' = "load_config"
    /\ result' = load_config(input.port_str, input.host)
    /\ UNCHANGED <<input, locals, nonFnVars>>

NextParse == CallValidatePortSafe \/ CallLoadConfig

SpecParse == InitParse /\ [][NextParse]_vars

\* What a text denotes, read as a numeral independently of the parser: an
\* optional plus sign followed by one or more decimal digits, valued by
\* position.
NumeralDigits(s) == IF Len(s) > 0 /\ s[1] = "+" THEN Tail(s) ELSE s
IsNumeral(s) ==
    /\ Len(NumeralDigits(s)) > 0
    /\ \A i \in DOMAIN NumeralDigits(s) :
          \E d \in DOMAIN DigitChars : DigitChars[d] = NumeralDigits(s)[i]
RECURSIVE PrefixValue(_, _)
PrefixValue(d, k) ==
    IF k = 0 THEN 0
    ELSE 10 * PrefixValue(d, k - 1)
           + (CHOOSE v \in 0 .. 9 : DigitChars[v + 1] = d[k])
NumeralValue(s) == PrefixValue(NumeralDigits(s), Len(NumeralDigits(s)))

\* C13: load_config checks in a fixed order and reports the first failure:
\* ParseError when the port text is not a 16-bit unsigned number, otherwise
\* InvalidPort when the port is 0, otherwise InvalidHost when the host is
\* empty, otherwise Ok with a Config of that port and host, timeout 30 and
\* debug level "info".
C13_LoadConfigOrder ==
    call = "load_config" =>
        LET s == input.port_str
            h == input.host
        IN  IF ~(IsNumeral(s) /\ NumeralValue(s) <= 65535)
               THEN result.kind = "ParseError"
            ELSE IF NumeralValue(s) = 0
               THEN result.kind = "InvalidPort"
            ELSE IF h = ""
               THEN result.kind = "InvalidHost"
            ELSE /\ result.kind = "Ok"
                 /\ result.value = << [port |-> NumeralValue(s), host |-> h,
                                       timeout |-> 30, debug_level |-> "info"] >>

C13_Witness ==
    /\ call = "load_config"
    /\ input = [port_str |-> <<"0">>, host |-> ""]
    /\ result.kind = "InvalidPort"

\* C14: validate_port_safe returns Ok(p) exactly when the text is a decimal
\* numeral of an integer p with 1 <= p <= 65535, and an error for every
\* other text; for a numeral of 0 the error is "Puerto no puede ser 0".
C14_PortRange ==
    call = "validate_port_safe" =>
        LET s == input.port_str
            inRange == IsNumeral(s) /\ NumeralValue(s) \in 1 .. 65535
        IN  /\ result.kind \in {"Ok", "Err"}
            /\ (result.kind = "Ok") <=> inRange
            /\ inRange => result.value = <<NumeralValue(s)>>
            /\ (IsNumeral(s) /\ NumeralValue(s) = 0) =>
                   result.msg = <<"Puerto no puede ser 0">>

C14_Witness ==
    /\ call = "validate_port_safe"
    /\ input.port_str = <<"6", "5", "5", "3", "6">>
    /\ result.kind = "Err"

\* C25: validate_port_safe rejects a numeral above 65535 with the error
\* "Puerto no puede ser mayor a 65535".
C25_OverRangeMessage ==
    (call = "validate_port_safe" /\ IsNumeral(input.port_str)
                                 /\ NumeralValue(input.port_str) > 65535) =>
        result = Err("Err", <<"Puerto no puede ser mayor a 65535">>)

(***************************************************************************)
(* User with a vector of post identifiers                                  *)
(* (performance_optimization_fixed.rs).  add_post pushes at the end;       *)
(* find_post is <[u32]>::binary_search.  The standard library has shipped  *)
(* two search loops: one narrows [left, right) around the midpoint and     *)
(* returns as soon as the midpoint matches, the other halves a window      *)
(* [base, base + size) down to one element and compares it last.  They     *)
(* agree on a sorted slice; on an unsorted slice the result is unspecified *)
(* and a call returns what either loop returns.                            *)
(***************************************************************************)
nonUserVars == <<concVars, cfgVars, rcVars>>

MaxPosts == 4

\* Post identifiers the methods are called with (u32).
PostIds == 100 .. 104

\* User::new
User_new(id, name, email) ==
    [id |-> id, name |-> name, email |-> email,
     posts |-> <<>>, last_post_id |-> <<>>]

\* User::add_post
add_post(u, post_id) ==
    [u EXCEPT !.posts = Append(@, post_id), !.last_post_id = <<post_id>>]

\* A mutation of the narrowing loop: the upper half starts at the midpoint's
\* successor's successor.
RECURSIVE bisectSkipsOne(_, _, _, _)
bisectSkipsOne(s, x, left, right) ==
    IF left >= right
       THEN Err("Err", <<left>>)
       ELSE LET mid == left + ((right - left) \div 2) IN
            IF s[mid + 1] < x THEN bisectSkipsOne(s, x, mid + 2, right)
            ELSE IF s[mid + 1] > x THEN bisectSkipsOne(s, x, left, mid)
            ELSE Ok(mid)

\* The narrowing loop on s[left .. right) (indices from 0).
RECURSIVE bisect(_, _, _, _)
bisect(s, x, left, right) ==
    IF left >= right
       THEN Err("Err", <<left>>)
       ELSE LET mid == left + ((right - left) \div 2) IN
            IF s[mid + 1] < x THEN bisect(s, x, mid + 1, right)
            ELSE IF s[mid + 1] > x THEN bisect(s, x, left, mid)
            ELSE Ok(mid)

\* The halving loop on the window of size elements from base.
RECURSIVE halve(_, _, _, _)
halve(s, x, base, size) ==
    IF size > 1
       THEN LET half == size \div 2
                mid == base + half
            IN  halve(s, x, IF s[mid + 1] > x THEN base ELSE mid, size - half)
       ELSE IF s[base + 1] = x
               THEN Ok(base)
               ELSE Err("Err", <<base + (IF s[base + 1] < x THEN 1 ELSE 0)>>)

\* <[u32]>::binary_search: the results a build can produce.
binary_search(s, x) ==
    IF Len(s) = 0
       THEN {Err("Err", <<0>>)}
       ELSE {bisect(s, x, 0, Len(s)), halve(s, x, 0, Len(s))}

\* Result::is_ok
is_ok(r) == r.kind = "Ok"

\* User::find_post: the values a build can return.
find_post(u, post_id) == {is_ok(r) : r \in binary_search(u.posts, post_id)}

InitUser ==
    /\ user = User_new(1, "Charlie", "charlie@example.com")
    /\ IdleConc /\ IdleCfg /\ IdleFn /\ IdleRc

CallAddPost(post_id) ==
    /\ Len(user.posts) < MaxPosts
    /\ user' = add_post(user, post_id)
    /\ call' = "add_post"
    /\ input' = [post_id |-> post_id]
    /\ result' = NoResult
    /\ UNCHANGED <<locals, nonUserVars>>

CallFindPost(post_id) ==
    /\ call' = "find_post"
    /\ input' = [post_id |-> post_id]
    /\ \E found \in find_post(user, post_id) : result' = Ok(found)
    /\ UNCHANGED <<user, locals, nonUserVars>>

NextUser ==
    \E post_id \in PostIds : CallAddPost(post_id) \/ CallFindPost(post_id)

SpecUser == InitUser /\ [][NextUser]_vars

\* Non-decreasing order.
Sorted(s) == \A i, j \in DOMAIN s : i < j => s[i] <= s[j]

\* Presence by a scan of every element.
LinearScan(s, x) == \E i \in DOMAIN s : s[i] = x

\* C15: for every post sequence in non-decreasing order and every value v,
\* find_post returns true exactly when a linear scan finds v; the empty
\* sequence and a v below or above every element give false.
C15_SearchAgreesWithScan ==
    (call = "find_post" /\ Sorted(user.posts)) =>
        result = Ok(LinearScan(user.posts, input.post_id))

C15_Witness ==
    /\ call = "find_post"
    /\ user.posts = <<101, 102, 102, 103>>
    /\ input.post_id = 104
    /\ result = Ok(FALSE)

\* C16 as stated: after any sequence of add_post calls the posts are in
\* non-decreasing order and find_post answers true for every post added.
C16_PostsStaySorted ==
    /\ Sorted(user.posts)
    /\ (call = "find_post" /\ LinearScan(user.posts, input.post_id)) =>
           result = Ok(TRUE)

(***************************************************************************)
(* Fibonacci: fibonacci_inefficient (performance_optimization.rs) is the   *)
(* doubly recursive function; fibonacci_optimized                          *)
(* (performance_optimization_fixed.rs) fills the vector memo in a loop,    *)
(* modelled one iteration per step with memo and i in locals.  The values  *)
(* are u64; up to the inputs used here they stay far below 2^64.           *)
(***************************************************************************)
\* The input of test_fibonacci_optimization, the largest one used.
FibTestInput == 35
\* The largest input the doubly recursive function is run on.
MaxNaive == 20

\* fn fibonacci_inefficient(n: u32) -> u64
RECURSIVE fibonacci_inefficientFromOne(_)
fibonacci_inefficientFromOne(k) ==
    IF k <= 1 THEN 1
    ELSE fibonacci_inefficientFromOne(k - 1) + fibonacci_inefficientFromOne(k - 2)
RECURSIVE fibonacci_inefficient(_)
fibonacci_inefficient(k) ==
    IF k <= 1 THEN k
    ELSE fibonacci_inefficient(k - 1) + fibonacci_inefficient(k - 2)

\* let mut memo = vec![0; (n + 1) as usize]; memo[0] = 0; memo[1] = 1;
new_memo(k) == [j \in 0 .. k |-> IF j = 1 THEN 1 ELSE 0]

\* memo[i - 1] + memo[i - 2]
next_entryTwice(memo, i) == memo[i - 1] + memo[i - 1]
next_entry(memo, i) == memo[i - 1] + memo[i - 2]

InitFib ==
    /\ call = "none"
    /\ \E k \in 0 .. FibTestInput : input = [n |-> k]
    /\ locals = <<>>
    /\ result = NoResult
    /\ IdleNonFn

CallFibInefficient ==
    /\ call = "none"
    /\ input.n <= MaxNaive
    /\ call' = "fibonacci_inefficient"
    /\ result' = Ok(fibonacci_inefficient(input.n))
    /\ UNCHANGED <<input, locals, nonFnVars>>

\* Entry of fibonacci_optimized: the early return, or the table set up.
CallFibOptimized ==
    /\ call = "none"
    /\ call' = "fibonacci_optimized"
    /\ IF input.n <= 1
          THEN /\ result' = Ok(input.n)
               /\ locals' = locals
          ELSE /\ locals' = [memo |-> new_memo(input.n), i |-> 2]
               /\ result' = result
    /\ UNCHANGED <<input, nonFnVars>>

\* One iteration of for i in 2..=n.
FibLoop ==
    /\ call = "fibonacci_optimized"
    /\ result = NoResult
    /\ locals.i <= input.n
    /\ locals' = [memo |-> [locals.memo EXCEPT ![locals.i] = next_entry(locals.memo, locals.i)],
                  i |-> locals.i + 1]
    /\ UNCHANGED <<call, input, result, nonFnVars>>

\* memo[n as usize]
FibReturn ==
    /\ call = "fibonacci_optimized"
    /\ result = NoResult
    /\ locals.i > input.n
    /\ result' = Ok(locals.memo[input.n])
    /\ UNCHANGED <<call, input, locals, nonFnVars>>

NextFib == CallFibInefficient \/ CallFibOptimized \/ FibLoop \/ FibReturn

SpecFib == InitFib /\ [][NextFib]_vars

FibReturned == call = "fibonacci_optimized" /\ result # NoResult

\* C17: for every n from 0 to 20, fibonacci_optimized returns the value
\* fibonacci_inefficient returns.
C17_NaiveAndTableAgree ==
    (FibReturned /\ input.n <= MaxNaive) =>
        result = Ok(fibonacci_inefficient(input.n))

C17_Witness ==
    /\ FibReturned
    /\ input.n = MaxNaive
    /\ result = Ok(6765)

\* The Fibonacci numbers by their definition, as the pair <<F(k), F(k+1)>>.
RECURSIVE FPair(_)
FPair(k) ==
    IF k = 0 THEN <<0, 1>>
    ELSE LET p == FPair(k - 1) IN <<p[2], p[1] + p[2]>>
F(k) == FPair(k)[1]

\* C18: fibonacci_optimized(n) returns F(n), F(0) = 0, F(1) = 1,
\* F(i) = F(i-1) + F(i-2): for n <= 1 it returns n and builds no table;
\* otherwise the table has n + 1 entries, is filled from index 2 upward with
\* every filled entry the sum of the two before it, and entry n is returned;
\* for n = 35 the result is 9227465.
C18_TableFibonacci ==
    call = "fibonacci_optimized" =>
        /\ input.n <= 1 => (locals = <<>> /\ result = Ok(input.n))
        /\ input.n > 1 =>
              /\ DOMAIN locals.memo = 0 .. input.n
              /\ locals.i \in 2 .. (input.n + 1)
              /\ locals.memo[0] = 0 /\ locals.memo[1] = 1
              /\ \A j \in 2 .. (locals.i - 1) :
                    locals.memo[j] = locals.memo[j - 1] + locals.memo[j - 2]
              /\ \A j \in locals.i .. input.n : locals.memo[j] = 0
              /\ result # NoResult =>
                    (locals.i = input.n + 1 /\ result = Ok(locals.memo[input.n]))
        /\ result # NoResult => result = Ok(F(input.n))
        /\ (result # NoResult /\ input.n = 35) => result = Ok(9227465)

C18_Witness ==
    /\ FibReturned
    /\ input.n = 35
    /\ result = Ok(9227465)

(***************************************************************************)
(* Reference counting (std::rc).  An allocation holds the strong count,    *)
(* the count of Weak pointers and the value; the value is dropped when the *)
(* strong count reaches 0.  Rc::clone and Rc::downgrade add a handle,      *)
(* Weak::upgrade gives None when the strong count is 0 and a new Rc        *)
(* otherwise.  demonstrate_weak_references and the two weak-reference      *)
(* tests run new, downgrade, upgrade, drop, upgrade on an Rc<i32>; the     *)
(* actions below are those operations, and Rc::clone of                    *)
(* test_rc_basic_usage, in any order.                                      *)
(***************************************************************************)
nonRcVars == <<concVars, cfgVars, userVars>>

\* The address of the allocation made by Rc::new(42).
WeakAddrs == {1}

\* Handles of each kind the caller holds at most.
MaxHandles == 3

\* Option<T>
Some(v) == <<v>>
None == <<>>

\* A call that returned v.
Returned(v) == Ok(v)

\* Rc::new(v)
RcBox(v) == [strong |-> 1, weak |-> 0, value |-> Some(v), borrow |-> 0]

\* Rc::strong_count, Rc::weak_count
strong_count(h, a) == h[a].strong
weak_count(h, a) == h[a].weak

\* Rc::clone, Rc::downgrade: one more handle of the kind.
inc_strong(h, a) == [h EXCEPT ![a].strong = @ + 1]
inc_weak(h, a) == [h EXCEPT ![a].weak = @ + 1]

\* Drop of an Rc<i32>: the value goes with the last strong handle.  In the
\* mutation the handle is forgotten instead of dropped.
drop_rcForget(h, a) == h
drop_rc(h, a) ==
    IF h[a].strong > 1
       THEN [h EXCEPT ![a].strong = @ - 1]
       ELSE [h EXCEPT ![a].strong = 0, ![a].value = None]

\* Drop of a Weak.
drop_weak(h, a) == [h EXCEPT ![a].weak = @ - 1]

\* Weak::upgrade succeeds while the strong count is not 0.
can_upgrade(h, a) == h[a].strong > 0

\* let strong = Rc::new(42);
InitWeak ==
    /\ heap = <<RcBox(42)>>
    /\ owned = <<1>>
    /\ weakheld = <<0>>
    /\ strong_ref = None
    /\ call = "Rc::new"
    /\ input = <<>>
    /\ locals = <<>>
    /\ result = NoResult
    /\ IdleConc /\ IdleCfg /\ IdleUser

\* Rc::clone(&strong)
RcClone(a) ==
    /\ owned[a] > 0
    /\ owned[a] < MaxHandles
    /\ heap' = inc_strong(heap, a)
    /\ owned' = [owned EXCEPT ![a] = @ + 1]
    /\ call' = "Rc::clone"
    /\ result' = NoResult
    /\ UNCHANGED <<weakheld, strong_ref, input, locals, nonRcVars>>

\* let weak = Rc::downgrade(&strong);
RcDowngrade(a) ==
    /\ owned[a] > 0
    /\ weakheld[a] < MaxHandles
    /\ heap' = inc_weak(heap, a)
    /\ weakheld' = [weakheld EXCEPT ![a] = @ + 1]
    /\ call' = "Rc::downgrade"
    /\ result' = NoResult
    /\ UNCHANGED <<owned, strong_ref, input, locals, nonRcVars>>

\* if let Some(strong_ref) = weak.upgrade(): the value read through
\* strong_ref on success.
WeakUpgrade(a) ==
    /\ weakheld[a] > 0
    /\ strong_ref = None
    /\ call' = "upgrade"
    /\ IF can_upgrade(heap, a)
          THEN /\ heap' = inc_strong(heap, a)
               /\ strong_ref' = Some(a)
               /\ result' = Returned(heap[a].value)
          ELSE /\ heap' = heap
               /\ strong_ref' = None
               /\ result' = Returned(None)
    /\ UNCHANGED <<owned, weakheld, input, locals, nonRcVars>>

\* End of the if let block: strong_ref is dropped.
EndIfLet ==
    /\ strong_ref # None
    /\ heap' = drop_rc(heap, strong_ref[1])
    /\ strong_ref' = None
    /\ call' = "end if let"
    /\ result' = NoResult
    /\ UNCHANGED <<owned, weakheld, input, locals, nonRcVars>>

\* drop(strong)
DropStrong(a) ==
    /\ owned[a] > 0
    /\ heap' = drop_rc(heap, a)
    /\ owned' = [owned EXCEPT ![a] = @ - 1]
    /\ call' = "drop"
    /\ result' = NoResult
    /\ UNCHANGED <<weakheld, strong_ref, input, locals, nonRcVars>>

\* weak goes out of scope.
DropWeak(a) ==
    /\ weakheld[a] > 0
    /\ heap' = drop_weak(heap, a)
    /\ weakheld' = [weakheld EXCEPT ![a] = @ - 1]
    /\ call' = "drop weak"
    /\ result' = NoResult
    /\ UNCHANGED <<owned, strong_ref, input, locals, nonRcVars>>

NextWeak ==
    \E a \in WeakAddrs :
        \/ RcClone(a)
        \/ RcDowngrade(a)
        \/ WeakUpgrade(a)
        \/ DropStrong(a)
        \/ DropWeak(a)
        \/ EndIfLet

SpecWeak == InitWeak /\ [][NextWeak]_vars

\* The owning references to a in existence: the caller's handles and the
\* one bound by the if let.
Owners(a) == owned[a] + (IF strong_ref = Some(a) THEN 1 ELSE 0)

\* C19: upgrade of a weak reference gives the value at every point where an
\* owning reference still exists and absent once the last owning reference
\* has been dropped; creating a weak reference leaves the owning count
\* unchanged (1 for one owner) and makes the weak count the number of weak
\* references (1 for the first).
C19_WeakResolvesWhileOwned ==
    /\ call = "upgrade" =>
          result = Returned(IF owned[1] > 0 THEN Some(42) ELSE None)
    /\ call = "Rc::downgrade" =>
          /\ strong_count(heap, 1) = Owners(1)
          /\ weak_count(heap, 1) = weakheld[1]
          /\ (Owners(1) = 1 /\ weakheld[1] = 1) =>
                (strong_count(heap, 1) = 1 /\ weak_count(heap, 1) = 1)

C19_Witness ==
    /\ call = "upgrade"
    /\ owned[1] = 0
    /\ weakheld[1] = 1
    /\ result = Returned(None)

(***************************************************************************)
(* TreeNode (memory_management_fixed.rs): nodes live in                    *)
(* Rc<RefCell<TreeNode>> allocations; children holds Rc handles and parent *)
(* an optional Weak.  The caller holds node1, node2, node3 and runs        *)
(* nodeP.borrow_mut().add_child(nodeC.clone()),                            *)
(* nodeC.borrow().get_parent_value() and drops of its handles, in any      *)
(* order.  RefCell: borrow is 0 when not borrowed and -1 under borrow_mut. *)
(***************************************************************************)
\* The nodes the caller creates: node a has value a.
NumNodes == 3
NodeAddrs == 1 .. NumNodes

\* The children entries in existence at most.
MaxEdges == 3

\* Addresses for the allocations add_child makes.
TempAddrs == (NumNodes + 1) .. (NumNodes + MaxEdges + 1)

FreeBox == [strong |-> 0, weak |-> 0, value |-> None, borrow |-> 0]

\* An allocation lives until both counts are 0.
Allocated(h, a) == h[a].strong > 0 \/ h[a].weak > 0

\* The address the allocator hands out next.
fresh(h) ==
    CHOOSE a \in TempAddrs :
        /\ ~Allocated(h, a)
        /\ \A b \in TempAddrs : b < a => Allocated(h, b)

\* TreeNode::new
TreeNode_new(v) == [value |-> v, children |-> <<>>, parent |-> None]

\* Drop of an Option<Weak<..>>.
drop_parent(h, parent) == IF parent = None THEN h ELSE drop_weak(h, parent[1])

\* Drop of an Rc<RefCell<TreeNode>>: with the last strong handle the node is
\* dropped, its children in order and then its parent link.
RECURSIVE drop_node_rc(_, _)
RECURSIVE drop_children(_, _, _)
drop_node_rc(h, a) ==
    IF h[a].strong > 1
       THEN [h EXCEPT ![a].strong = @ - 1]
       ELSE LET node == h[a].value[1]
                gone == [h EXCEPT ![a].strong = 0, ![a].value = None]
            IN  drop_parent(drop_children(gone, node.children, 1), node.parent)
drop_children(h, cs, i) ==
    IF i > Len(cs) THEN h
    ELSE drop_children(drop_node_rc(h, cs[i]), cs, i + 1)

\* TreeNode::add_child on the node at p (mutably borrowed by the caller)
\* with the handle to c moved in.  The Rc made for the parent link is a
\* temporary of the assignment and is dropped at its end.
add_child_node(h, p, c) ==
    LET self == h[p].value[1]
        linked ==
            IF h[c].borrow = 0
               THEN LET t == fresh(h)
                        made == [h EXCEPT ![t] = RcBox(TreeNode_new(self.value))]
                        weak == inc_weak(made, t)
                        old == weak[c].value[1].parent
                        set == [weak EXCEPT ![c].value =
                                   Some([@[1] EXCEPT !.parent = Some(t)])]
                    IN  drop_node_rc(drop_parent(set, old), t)
               ELSE h
    IN  [linked EXCEPT ![p].value = Some([@[1] EXCEPT !.children = Append(@, c)])]

\* TreeNode::get_parent_value on the node at c.
get_parent_value(h, c) ==
    LET node == h[c].value[1] IN
    IF node.parent = None THEN None
    ELSE IF ~can_upgrade(h, node.parent[1]) THEN None
    ELSE IF h[node.parent[1]].borrow < 0 THEN None
    ELSE Some(h[node.parent[1]].value[1].value)

Edges(h) ==
    {<<p, i>> \in NodeAddrs \X (1 .. MaxEdges) :
        h[p].value # None /\ i \in DOMAIN h[p].value[1].children}

InitTree ==
    /\ heap = [a \in NodeAddrs \cup TempAddrs |->
                  IF a \in NodeAddrs THEN RcBox(TreeNode_new(a)) ELSE FreeBox]
    /\ owned = [a \in NodeAddrs \cup TempAddrs |-> IF a \in NodeAddrs THEN 1 ELSE 0]
    /\ weakheld = [a \in NodeAddrs \cup TempAddrs |-> 0]
    /\ strong_ref = None
    /\ call = "Rc::new"
    /\ input = <<>>
    /\ locals = <<>>
    /\ result = NoResult
    /\ IdleConc /\ IdleCfg /\ IdleUser

\* nodeP.borrow_mut().add_child(nodeC.clone())
AddChild(p, c) ==
    /\ owned[p] > 0 /\ owned[c] > 0
    /\ Cardinality(Edges(heap)) < MaxEdges
    /\ heap' = [add_child_node(inc_strong([heap EXCEPT ![p].borrow = -1], c), p, c)
                   EXCEPT ![p].borrow = 0]
    /\ call' = "add_child"
    /\ input' = [parent |-> p, child |-> c]
    /\ result' = NoResult
    /\ UNCHANGED <<owned, weakheld, strong_ref, locals, nonRcVars>>

\* nodeC.borrow().get_parent_value()
GetParentValue(c) ==
    /\ owned[c] > 0
    /\ call' = "get_parent_value"
    /\ input' = [node |-> c]
    /\ result' = Returned(get_parent_value(heap, c))
    /\ UNCHANGED <<rcVars, locals, nonRcVars>>

\* The caller's handle to a goes out of scope.
DropNode(a) ==
    /\ owned[a] > 0
    /\ heap' = drop_node_rc(heap, a)
    /\ owned' = [owned EXCEPT ![a] = @ - 1]
    /\ call' = "drop"
    /\ input' = [node |-> a]
    /\ result' = NoResult
    /\ UNCHANGED <<weakheld, strong_ref, locals, nonRcVars>>

NextTree ==
    \E p \in NodeAddrs, c \in NodeAddrs :
        \/ AddChild(p, c)
        \/ GetParentValue(c)
        \/ DropNode(c)

SpecTree == InitTree /\ [][NextTree]_vars

\* The live nodes that hold c among their children.
ParentsOf(c) ==
    {p \in NodeAddrs \ {c} :
        /\ heap[p].value # None
        /\ \E i \in DOMAIN heap[p].value[1].children :
              heap[p].value[1].children[i] = c}

\* C20 as stated: after parent.add_child(child) on a live parent,
\* child.get_parent_value() returns the parent's value for as long as the
\* parent is alive; it returns absent only when the node has no parent or
\* the parent has been reclaimed.
C20_ChildKnowsParent ==
    call = "get_parent_value" =>
        IF ParentsOf(input.node) = {}
           THEN result = Returned(None)
           ELSE \E p \in ParentsOf(input.node) :
                   result = Returned(Some(heap[p].value[1].value))

\* The nodes the live node a owns through its children vector.
ChildrenOf(a) ==
    IF heap[a].value = None THEN {}
    ELSE {heap[a].value[1].children[i] : i \in DOMAIN heap[a].value[1].children}

\* The nodes reached from a by one to k children links.
RECURSIVE ReachedIn(_, _)
ReachedIn(a, k) ==
    IF k = 1 THEN ChildrenOf(a)
    ELSE ReachedIn(a, k - 1)
           \cup UNION {ChildrenOf(b) : b \in ReachedIn(a, k - 1)}

\* C21 as stated: after any sequence of add_child operations no node is
\* reachable from itself through children links, and once the caller has
\* dropped every handle it holds every node has been reclaimed.
C21_ChildrenAcyclic ==
    /\ \A a \in NodeAddrs : a \notin ReachedIn(a, NumNodes)
    /\ (\A a \in NodeAddrs : owned[a] = 0) =>
           (\A a \in NodeAddrs : heap[a].value = None)

\* C22 as stated: add_child never changes the parent's strong count, and a
\* parent whose strong count is 1 before the call (held by exactly one
\* owner) still has strong count 1 after it, for every call in any sequence
\* of add_child calls.
C22_ParentCountUnchanged ==
    [][ (call' = "add_child" /\ heap' # heap) =>
           /\ strong_count(heap', input'.parent) = strong_count(heap, input'.parent)
           /\ strong_count(heap, input'.parent) = 1 =>
                  strong_count(heap', input'.parent) = 1 ]_vars

\* C23 as stated: in the tree built by node1.add_child(node2.clone()) and
\* node1.add_child(node3.clone()), while the caller holds node1, node2 and
\* node3, the strong count of each of the three nodes is 1.
C23_AllCountsOne ==
    ( /\ \A a \in NodeAddrs : owned[a] = 1
      /\ heap[1].value[1].children = <<2, 3>>
      /\ heap[2].value[1].children = <<>>
      /\ heap[3].value[1].children = <<>> ) =>
        \A a \in NodeAddrs : strong_count(heap, a) = 1

(***************************************************************************)
(* safe_recursion (memory_management_fixed.rs), one call or return per     *)
(* step.  locals holds the argument n of the innermost frame, the number   *)
(* of frames below it (depth), the recursive calls made so far (calls) and *)
(* the value being returned (acc).  The frame below one with argument n    *)
(* has argument n + 1.  The sums stay far below 2^32.                      *)
(***************************************************************************)
\* The depth limit of safe_recursion.
DepthLimit == 1000
\* How far above the limit the arguments go.
MaxOver == 2

\* else if n > 1000
over_limitInclusive(k) == k >= DepthLimit
over_limit(k) == k > DepthLimit

InitRecursion ==
    /\ call = "none"
    /\ \E k \in 0 .. (DepthLimit + MaxOver) : input = [n |-> k]
    /\ locals = <<>>
    /\ result = NoResult
    /\ IdleNonFn

CallSafeRecursion ==
    /\ call = "none"
    /\ call' = "safe_recursion"
    /\ locals' = [n |-> input.n, depth |-> 0, calls |-> 0, phase |-> "call", acc |-> 0]
    /\ UNCHANGED <<input, result, nonFnVars>>

\* n + safe_recursion(n - 1): the recursive call.
RecursiveCall ==
    /\ call = "safe_recursion"
    /\ locals.phase = "call"
    /\ locals.n # 0 /\ ~over_limit(locals.n)
    /\ locals' = [locals EXCEPT !.n = @ - 1, !.depth = @ + 1, !.calls = @ + 1]
    /\ UNCHANGED <<call, input, result, nonFnVars>>

\* The frames that do not recurse: 0 for n == 0, n above the limit.
BaseCase ==
    /\ call = "safe_recursion"
    /\ locals.phase = "call"
    /\ locals.n = 0 \/ over_limit(locals.n)
    /\ locals' = [locals EXCEPT !.phase = "return",
                                !.acc = IF locals.n = 0 THEN 0 ELSE locals.n]
    /\ UNCHANGED <<call, input, result, nonFnVars>>

\* Return into the frame below, which adds its n.
ReturnToCaller ==
    /\ call = "safe_recursion"
    /\ locals.phase = "return"
    /\ locals.depth > 0
    /\ locals' = [locals EXCEPT !.n = @ + 1, !.depth = @ - 1,
                                !.acc = (locals.n + 1) + @]
    /\ UNCHANGED <<call, input, result, nonFnVars>>

\* Return of the outermost frame.
ReturnResult ==
    /\ call = "safe_recursion"
    /\ locals.phase = "return"
    /\ locals.depth = 0
    /\ result = NoResult
    /\ result' = Ok(locals.acc)
    /\ UNCHANGED <<call, input, locals, nonFnVars>>

NextRecursion ==
    CallSafeRecursion \/ RecursiveCall \/ BaseCase \/ ReturnToCaller \/ ReturnResult

SpecRecursion == InitRecursion /\ [][NextRecursion]_vars

\* C24: safe_recursion(n) returns 0 + 1 + ... + n for every n from 0 to 1000
\* (5050 for n = 100) after exactly n recursive calls; for n above 1000 it
\* returns n without recursing; the recursion depth never exceeds 1000.
C24_SafeRecursionSum ==
    call = "safe_recursion" =>
        /\ locals.depth <= 1000
        /\ result # NoResult =>
              /\ input.n <= 1000 =>
                    /\ result = Ok((input.n * (input.n + 1)) \div 2)
                    /\ locals.calls = input.n
              /\ input.n > 1000 => (result = Ok(input.n) /\ locals.calls = 0)
              /\ input.n = 100 => result = Ok(5050)

C24_Witness ==
    /\ call = "safe_recursion"
    /\ input.n = 1000
    /\ locals.calls = 1000
    /\ result = Ok(500500)

(***************************************************************************)
(* User of ownership_basics.rs (posts: Vec<i32>, add_post pushes           *)
(* post_id as i32) and of ownership_basics_fixed.rs (posts: Vec<u32>,      *)
(* add_post pushes post_id).  A u32 is kept as its two 16-bit halves       *)
(* [hi, lo], value hi * 65536 + lo, so that all 32 bits are present; an    *)
(* i32 is an integer of -2^31 .. 2^31 - 1.                                 *)
(***************************************************************************)
MaxStored == 2

\* Post identifiers add_post is called with: 0, 101, 102 (the demo's), and
\* the values around 2^16, 2^31 and 2^32.
OwnershipPostIds ==
    {[hi |-> h, lo |-> l] : h \in {0, 1, 32767, 32768, 65535},
                            l \in {0, 101, 102, 65535}}

\* User::new in either file; posts_type is the element type of posts.
OwnershipUser_new(posts_type, id, name, email) ==
    [posts_type |-> posts_type, id |-> id, name |-> name, email |-> email,
     posts |-> <<>>]

\* post_id as i32: the same 32 bits read as two's complement (bits 0..30
\* keep their weight, bit 31 weighs -2^31).
as_i32Saturating(w) ==
    IF w.hi >= 32768 THEN 2147483647 ELSE w.hi * 65536 + w.lo
as_i32(w) ==
    LET low31 == (w.hi % 32768) * 65536 + w.lo
        bit31 == w.hi \div 32768
    IN  IF bit31 = 1 THEN (low31 - 2147483647) - 1 ELSE low31

\* User::add_post of ownership_basics.rs
add_post_i32(u, post_id) == [u EXCEPT !.posts = Append(@, as_i32(post_id))]
\* User::add_post of ownership_basics_fixed.rs
add_post_u32(u, post_id) == [u EXCEPT !.posts = Append(@, post_id)]

InitOwnership ==
    /\ \E ty \in {"i32", "u32"} :
          user = OwnershipUser_new(ty, 1, "Alice", "alice@example.com")
    /\ IdleConc /\ IdleCfg /\ IdleFn /\ IdleRc

AddPostBuggy(post_id) ==
    /\ user.posts_type = "i32"
    /\ Len(user.posts) < MaxStored
    /\ user' = add_post_i32(user, post_id)
    /\ call' = "add_post"
    /\ input' = [post_id |-> post_id]
    /\ UNCHANGED <<locals, result, nonUserVars>>

AddPostFixed(post_id) ==
    /\ user.posts_type = "u32"
    /\ Len(user.posts) < MaxStored
    /\ user' = add_post_u32(user, post_id)
    /\ call' = "add_post"
    /\ input' = [post_id |-> post_id]
    /\ UNCHANGED <<locals, result, nonUserVars>>

NextOwnership ==
    \/ \E post_id \in OwnershipPostIds : AddPostBuggy(post_id)
    \/ \E post_id \in OwnershipPostIds : AddPostFixed(post_id)

SpecOwnership == InitOwnership /\ [][NextOwnership]_vars

\* C30: the buggy add_post stores post_id reinterpreted as i32: an id of
\* 2^31 or more is stored as the negative id - 2^32, an id below 2^31 is
\* stored unchanged; the fixed add_post stores every id unchanged, so the
\* stored ids are never negative.  (id - 2^32 = (hi - 65536) * 65536 + lo.)
C30_PostIdCast ==
    call = "add_post" =>
        LET id == input.post_id
            stored == user.posts[Len(user.posts)]
        IN  /\ user.posts_type = "i32" =>
                  /\ id.hi >= 32768 =>
                        (stored = (id.hi - 65536) * 65536 + id.lo /\ stored < 0)
                  /\ id.hi < 32768 =>
                        (stored = id.hi * 65536 + id.lo /\ stored >= 0)
            /\ user.posts_type = "u32" =>
                  /\ stored = id
                  /\ \A i \in DOMAIN user.posts :
                        user.posts[i].hi >= 0 /\ user.posts[i].lo >= 0

C30_Witness ==
    /\ call = "add_post"
    /\ user.posts_type = "i32"
    /\ input.post_id = [hi |-> 65535, lo |-> 65535]
    /\ user.posts = <<101, -1>>

=============================================================================
